---- MODULE Spec2Model ----
(***************************************************************************)
(* Token exchange gateways of the Okta AI agent demo backend:              *)
(*   - OktaCrossAppAccessManager (app/auth/xaa_manager.py): the two-step   *)
(*     exchange ID token -> ID-JAG -> authorization-server access token;   *)
(*   - OktaService.exchange_token (app/services/okta_service.py): the      *)
(*     single-step RFC 8693 exchange with simulated fallback;              *)
(*   - MCPClient._exchange_token_for_mcp (app/services/mcp_client.py): the *)
(*     token cache in front of OktaService.exchange_token;                 *)
(*   - the /token/exchange route (app/routers/auth.py).                    *)
(* HTTP calls are split at the await: one action sends the request, the    *)
(* next receives the answer the authorization server chose.                *)
(***************************************************************************)
EXTENDS Integers, Sequences, FiniteSets, TLC

\* Python's None, for optional strings.
None == "<None>"

-----------------------------------------------------------------------------
(* Bounds of the model *)

\* Seconds the clock may advance.
MaxTime == 1

\* Tasks of the event loop that may have an exchange each.
MaxTasks == 3

-----------------------------------------------------------------------------
(* Program constants *)

\* exp = iat + 300 in client assertions.
AssertionLifetime == 300
\* "60s buffer" of the MCP client's token cache.
CacheBuffer == 60
\* expires_in assumed when the token response carries none.
DefaultExpiresIn == 3600
\* expires_in of a simulated token.
SimulatedExpiresIn == 3600
HttpOk == 200

-----------------------------------------------------------------------------
(* URIs: scheme, host and path segments *)

Uri(scheme, host, path) == [scheme |-> scheme, host |-> host, path |-> path]

\* No value (a request that carries no audience parameter).
NoUri == Uri("", "", <<>>)

\* settings.OKTA_ISSUER and the f-string target_issuer of the XAA manager.
IssuerUrl(domain, auth_server_id) == Uri("https", domain, <<"oauth2", auth_server_id>>)

\* f"https://{okta_domain}/oauth2/{auth_server_id}/v1/token" and settings.OKTA_TOKEN_URL.
AuthServerTokenUrl(domain, auth_server_id) ==
    Uri("https", domain, <<"oauth2", auth_server_id, "v1", "token">>)

\* f"https://{okta_domain}/oauth2/v1/token": the org-level token endpoint.
OrgTokenUrl(domain) == Uri("https", domain, <<"oauth2", "v1", "token">>)

\* MCPClient.mcp_audience = "api://default": a resource identifier.
McpAudience == Uri("api", "default", <<>>)

-----------------------------------------------------------------------------
(* Environment the process starts with *)

\* os.getenv default of OKTA_AUTH_SERVER_ID and settings.OKTA_AUTH_SERVER.
DefaultAuthServer == "default"
\* settings.OKTA_DOMAIN, OKTA_CLIENT_ID, OKTA_AGENT_ID defaults.
SettingsDomain == "qa.trexcloud.example"
SettingsClientId == "0oaTestKK"
SettingsAgentId == "wlpDemoAgent"

\* RSA private-key components a JWK must carry for _jwk_to_pem.
RsaComponents == {"n", "e", "d", "p", "q", "dp", "dq", "qi"}

GoodComps == [c \in RsaComponents |->
                 CASE c = "n" -> 15 [] c = "e" -> 3 [] c = "d" -> 3 [] c = "p" -> 3
                   [] c = "q" -> 5 [] c = "dp" -> 1 [] c = "dq" -> 3 [] c = "qi" -> 2]

Restrict(f, S) == [x \in S |-> f[x]]

\* Values of OKTA_AGENT_PRIVATE_KEY: unset, not JSON, JWKs (complete, without d,
\* with p*q # n).
KeyAbsent == [form |-> "absent"]
KeyNotJson == [form |-> "text"]
JwkGood == [form |-> "jwk", kid |-> "kid-1", comps |-> GoodComps]
JwkMissingD == [form |-> "jwk", kid |-> "kid-1", comps |-> Restrict(GoodComps, RsaComponents \ {"d"})]
JwkInconsistent == [form |-> "jwk", kid |-> "kid-1", comps |-> [GoodComps EXCEPT !["n"] = 21]]

KeyEnvs == {KeyAbsent, KeyNotJson, JwkGood, JwkMissingD, JwkInconsistent}

Envs == [OKTA_DOMAIN : {None, "org.okta.example"},
         OKTA_AGENT_ID : {None, "wlpAgent1"},
         OKTA_AGENT_PRIVATE_KEY : KeyEnvs,
         OKTA_GOOGLE_AUTH_SERVER_ID : {None, "ausGoogle"}]

-----------------------------------------------------------------------------
(* Key material loader *)

\* The PEM of no key (the Python attribute is None).
NoKey == [n |-> 0, d |-> 0]

\* RSAPrivateNumbers(...).private_key() validates the numbers: p * q = n.
RsaConsistent(comps) == comps["p"] * comps["q"] = comps["n"]

\* _jwk_to_pem / jwk_to_pem: KeyError on a missing component, ValueError on
\* inconsistent numbers, else the PEM of the key.
JwkToPem(jwk) ==
    IF ~(RsaComponents \subseteq DOMAIN jwk.comps) THEN [raised |-> TRUE, pem |-> NoKey]
    ELSE IF ~RsaConsistent(jwk.comps) THEN [raised |-> TRUE, pem |-> NoKey]
    ELSE [raised |-> FALSE, pem |-> [n |-> jwk.comps["n"], d |-> jwk.comps["d"]]]

\* OktaCrossAppAccessManager.__init__ + _initialize: the manager built from env.
XaaInitialize(env) ==
    LET okta_domain == IF env.OKTA_DOMAIN = None THEN "" ELSE env.OKTA_DOMAIN
        base == [okta_domain |-> okta_domain,
                 agent_id |-> env.OKTA_AGENT_ID,
                 default_auth_server_id |-> DefaultAuthServer,
                 google_auth_server_id |-> env.OKTA_GOOGLE_AUTH_SERVER_ID,
                 private_key |-> NoKey, kid |-> None, initialized |-> FALSE]
        key == env.OKTA_AGENT_PRIVATE_KEY
    IN  IF okta_domain = "" THEN base
        ELSE IF env.OKTA_AGENT_ID = None THEN base
        ELSE IF key.form = "absent" THEN base
        ELSE IF key.form = "text" THEN base
        ELSE LET withKid == [base EXCEPT !.kid = key.kid]
                 conv == JwkToPem(key)
             IN  IF conv.raised THEN withKid
                 ELSE [withKid EXCEPT !.private_key = conv.pem, !.initialized = TRUE]

\* OktaService.__init__ + _load_private_key: the service built from settings.
OktaServiceInit(env) ==
    LET domain == IF env.OKTA_DOMAIN = None THEN SettingsDomain ELSE env.OKTA_DOMAIN
        base == [domain |-> domain,
                 client_id |-> SettingsClientId,
                 agent_id |-> IF env.OKTA_AGENT_ID = None THEN SettingsAgentId ELSE env.OKTA_AGENT_ID,
                 token_url |-> AuthServerTokenUrl(domain, DefaultAuthServer),
                 private_key_pem |-> NoKey, private_key_kid |-> None]
        key == env.OKTA_AGENT_PRIVATE_KEY
    IN  IF key.form = "absent" THEN base
        ELSE IF key.form = "text" THEN base
        ELSE LET withKid == [base EXCEPT !.private_key_kid = key.kid]
                 conv == JwkToPem(key)
             IN  IF conv.raised THEN withKid
                 ELSE [withKid EXCEPT !.private_key_pem = conv.pem]

\* What the statements inside the try block of _initialize / _load_private_key
\* raise for a key that is set: json.loads on text that is not JSON
\* (JSONDecodeError), the JWK conversion on a bad JWK (KeyError, ValueError).
KeyLoadRaises(key) ==
    key.form = "text" \/ (key.form = "jwk" /\ JwkToPem(key).raised)

\* A loader without except clauses: what the try block raises leaves it.
Escapes_NoHandler(raised) == raised

\* `except json.JSONDecodeError` / `except Exception`: the handlers log the
\* exception and fall off the end, so nothing raised in the block leaves it.
Escapes(raised) == FALSE

\* OktaCrossAppAccessManager() raises: _initialize got to the key and what
\* loading it raised escaped.
XaaConstructionRaises(e) ==
    /\ e.OKTA_DOMAIN # None /\ e.OKTA_AGENT_ID # None
    /\ e.OKTA_AGENT_PRIVATE_KEY.form # "absent"
    /\ Escapes(KeyLoadRaises(e.OKTA_AGENT_PRIVATE_KEY))

\* OktaService() raises.
OktaConstructionRaises(e) ==
    /\ e.OKTA_AGENT_PRIVATE_KEY.form # "absent"
    /\ Escapes(KeyLoadRaises(e.OKTA_AGENT_PRIVATE_KEY))

\* A manager that claims to be available whatever _initialize found.
is_available_Always(m) == TRUE

\* OktaCrossAppAccessManager.is_available
is_available(m) == m.initialized

\* `if not self._private_key_pem` of OktaService.exchange_token
HasPrivateKey(svc) == svc.private_key_pem # NoKey

-----------------------------------------------------------------------------
(* Tokens, requests and responses *)

\* Subject tokens callers present (opaque strings): ID tokens given to the XAA
\* manager, user tokens given to the MCP client and the /token/exchange route.
IdTokens == {"idtok-alice-1", "idtok-bob"}
UserTokens == {"idtok-alice-1", "idtok-alice-2", "idtok-bob"}

\* user_token[:50]: the two tokens of alice share their first 50 characters.
First50(token) ==
    IF token \in {"idtok-alice-1", "idtok-alice-2"} THEN "idtok-alice" ELSE token

\* access_token values the authorization server may put in a 200 body:
\* two tokens, the empty string, or no access_token field (None).
IssuedTokens == {"tok-1", "tok-2"}
BodyTokens == IssuedTokens \cup {"", None}

\* f"simulated_xaa_token_{uuid.uuid4().hex[:16]}"
SimulatedTokens == {"simulated_xaa_token_a", "simulated_xaa_token_b"}

\* jwt.decode(token, options={"verify_signature": False}): the claims of the
\* tokens of the model; ok = FALSE when the token does not decode. sub is None
\* for claims without sub. act is the act claim: a dict with the keys sub and
\* act it carries, each act nesting the next actor; NoAct (the empty dict) for
\* claims without act.
NoAct == <<>>
Claims(ok, sub, act) == [ok |-> ok, sub |-> sub, act |-> act]
JwtDecode(token) ==
    CASE token \in {"idtok-alice-1", "idtok-alice-2"} -> Claims(TRUE, "alice", NoAct)
      [] token = "idtok-bob" -> Claims(FALSE, None, NoAct)
      [] token = "tok-1" -> Claims(TRUE, "alice", [sub |-> "wlpAgent1"])
      [] token = "tok-2" -> Claims(TRUE, None, NoAct)
      [] token = "tok-3" -> Claims(TRUE, "alice", NoAct)
      [] token = "tok-4" ->
            Claims(TRUE, "alice", [sub |-> "wlpAgent1", act |-> [sub |-> "svc-orders"]])
      [] token = "tok-5" ->
            Claims(TRUE, "alice", [sub |-> "wlpAgent1",
                                   act |-> [sub |-> "svc-orders", act |-> [sub |-> "svc-edge"]]])
      [] token = "tok-6" -> Claims(TRUE, "alice", [act |-> [sub |-> "svc-orders"]])
      [] OTHER -> Claims(FALSE, None, NoAct)

\* expires_in values of a 200 body; Absent stands for a body without the field.
Absent == -1
BodyExpiresIn == {Absent, 60, 61}

\* Wall-clock time an HTTP call may take, in microseconds.
ElapsedMicros == {400, 2500}

\* What comes back from client.post: an HTTP response, or an exception
\* (connection error, timeout, body that is not JSON).
Response(kind, status, access_token, expires_in) ==
    [kind |-> kind, status |-> status, access_token |-> access_token, expires_in |-> expires_in]

NoResponse == Response("none", 0, None, Absent)

\* Answers that are not a 200: a rejection, and client.post raising.
Rejected == Response("http", 400, None, Absent)
Raised == Response("raise", 0, None, Absent)

\* Answers to step 1, which reads only the status and access_token.
Step1Responses ==
    {Response("http", HttpOk, t, Absent) : t \in BodyTokens} \cup {Rejected, Raised}

\* Answers to step 2, which reads the status, access_token and expires_in.
Step2Responses ==
    {Response("http", HttpOk, t, e) : t \in IssuedTokens, e \in BodyExpiresIn}
    \cup {Response("http", HttpOk, t, Absent) : t \in {"", None}}
    \cup {Rejected, Raised}

\* Answers to the exchange of OktaService.
ExchangeResponses ==
    {Response("http", HttpOk, t, e) : t \in IssuedTokens, e \in {60, 61}}
    \cup {Response("http", HttpOk, None, Absent), Rejected, Raised}

\* int((time.time() - start_time) * 1000): whole milliseconds, truncated.
DurationMs(elapsed_micros) == elapsed_micros \div 1000

\* Python truthiness of an Optional[str]: `not token`.
Falsy(token) == token = None \/ token = ""

-----------------------------------------------------------------------------
(* State *)

VARIABLES
    env,            \* the environment the process was started with
    xaa_manager,    \* the OktaCrossAppAccessManager singleton
    okta_service,   \* the OktaService singleton
    token_cache,    \* MCPClient._token_cache: cache key -> {access_token, expires_at}
    now,            \* time.time(), in seconds
    pc,             \* position of the exchange in flight: idle, step1, step2, okta
    call,           \* arguments, locals and observed responses of the current/last exchange
    wire,           \* the HTTP requests the current/last exchange sent, in order
    ret,            \* what the last finished exchange returned
    suspended,      \* frames (pc, call, wire, ret) of the other tasks of the event loop
    mcp_server,     \* MCP server: the request it handled last and what it did with it
    audit_entries,  \* AuditService._entries
    tool_call       \* the tool use process_message handled last

vars == <<env, xaa_manager, okta_service, token_cache, now, pc, call, wire, ret, suspended,
          mcp_server, audit_entries, tool_call>>

\* The state of the components outside the token exchange gateways.
others == <<mcp_server, audit_entries, tool_call>>

\* The singletons are built at import time and never assigned again.
config == <<env, xaa_manager, okta_service>>

-----------------------------------------------------------------------------
(* Calls and return values *)

Scopes == {"mcp:read"}

\* Return values: Python None, nothing returned yet, and the result objects.
ReturnNone == [kind |-> "None"]
NotReturned == [kind |-> "pending"]

XAATokenInfo(id_jag_token, auth_server_token, expires_in, scope, audience, d1, d2) ==
    [kind |-> "XAATokenInfo", id_jag_token |-> id_jag_token,
     auth_server_token |-> auth_server_token, expires_in |-> expires_in,
     scope |-> scope, audience |-> audience, token_type |-> "Bearer",
     id_jag_duration_ms |-> d1, auth_server_duration_ms |-> d2]

TokenExchangeResponse(access_token, expires_in, scope, delegation_chain) ==
    [kind |-> "TokenExchangeResponse", access_token |-> access_token,
     token_type |-> "Bearer", expires_in |-> expires_in,
     issued_token_type |-> "urn:ietf:params:oauth:token-type:access_token",
     scope |-> scope, delegation_chain |-> delegation_chain]

\* The str _exchange_token_for_mcp returns.
McpToken(access_token) == [kind |-> "str", access_token |-> access_token]

NoCall == [gateway |-> "none", via |-> "none", subject_token |-> None,
           auth_server_id |-> None, audience |-> NoUri, scope |-> <<>>,
           id_jag_token |-> None, id_jag_duration |-> 0,
           resp1 |-> NoResponse, resp2 |-> NoResponse, resp |-> NoResponse,
           result |-> ReturnNone, hit |-> FALSE, begun |-> 0, audit |-> <<>>]

NewCall(gateway, via, subject_token, auth_server_id, audience, scope) ==
    [NoCall EXCEPT !.gateway = gateway, !.via = via, !.subject_token = subject_token,
                   !.auth_server_id = auth_server_id, !.audience = audience,
                   !.scope = scope, !.begun = now]

\* The downstream token a return value carries (None when it carries none).
DownstreamToken(r) ==
    CASE r.kind = "XAATokenInfo" -> r.auth_server_token
      [] r.kind = "TokenExchangeResponse" -> r.access_token
      [] r.kind = "str" -> r.access_token
      [] OTHER -> None

-----------------------------------------------------------------------------
(* OktaCrossAppAccessManager *)

\* No JWT (a request without actor_token).
NoJwt == [iss |-> NoUri, sub |-> None, aud |-> NoUri, iat |-> 0, exp |-> 0, jti |-> None]

\* _create_client_assertion(token_endpoint): the claims and header of the signed JWT.
XaaCreateClientAssertion(m, token_endpoint, t) ==
    [iss |-> m.agent_id, sub |-> m.agent_id, aud |-> token_endpoint,
     iat |-> t, exp |-> t + AssertionLifetime, jti |-> None, kid |-> m.kid]

\* The URL _exchange_id_for_id_jag posts to.
Step1Url(m) == OrgTokenUrl(m.okta_domain)

\* The URL _exchange_id_jag_for_access_token posts to.
Step2Url(m, auth_server_id) == AuthServerTokenUrl(m.okta_domain, auth_server_id)

\* The URL the client assertion of step 1 is made out to.
Step1AssertionAud(m) == Step1Url(m)

\* Step 2 reusing the assertion audience of step 1.
Step2AssertionAud_OrgLevel(m, auth_server_id) == Step1Url(m)

\* The URL the client assertion of step 2 is made out to.
Step2AssertionAud(m, auth_server_id) == Step2Url(m, auth_server_id)

\* The POST of _exchange_id_for_id_jag.
Step1Request(m, id_token, audience, t) ==
    [by |-> "xaa", step |-> "id_jag", url |-> Step1Url(m),
     grant_type |-> "urn:ietf:params:oauth:grant-type:token-exchange",
     token |-> id_token, actor_token |-> NoJwt,
     audience |-> audience, scope |-> <<>>,
     client_assertion |-> XaaCreateClientAssertion(m, Step1AssertionAud(m), t)]

\* The POST of _exchange_id_jag_for_access_token.
Step2Request(m, id_jag_token, auth_server_id, scope, t) ==
    [by |-> "xaa", step |-> "access_token", url |-> Step2Url(m, auth_server_id),
     grant_type |-> "urn:ietf:params:oauth:grant-type:jwt-bearer",
     token |-> id_jag_token, actor_token |-> NoJwt,
     audience |-> NoUri, scope |-> scope,
     client_assertion |-> XaaCreateClientAssertion(m, Step2AssertionAud(m, auth_server_id), t)]

\* What _exchange_id_for_id_jag returns (or raises) for a response.
IdJagResult(resp) ==
    IF resp.kind = "raise" THEN [raised |-> TRUE, token |-> None]
    ELSE IF resp.status # HttpOk THEN [raised |-> FALSE, token |-> None]
    ELSE [raised |-> FALSE, token |-> resp.access_token]

\* What _exchange_id_jag_for_access_token returns (or raises) for a response.
AccessTokenResult(resp) ==
    IF resp.kind = "raise" THEN [raised |-> TRUE, token |-> None, expires_in |-> 0]
    ELSE IF resp.status # HttpOk THEN [raised |-> FALSE, token |-> None, expires_in |-> 0]
    ELSE [raised |-> FALSE, token |-> resp.access_token,
          expires_in |-> IF resp.expires_in = Absent THEN DefaultExpiresIn ELSE resp.expires_in]

\* Step 1 without the `if not id_jag_token` check: only an exception stops it.
Step1Failed_NoTokenCheck(r) == r.raised

\* `if not id_jag_token: return None` (and the except clause around step 1).
Step1Failed(r) == r.raised \/ Falsy(r.token)

\* Step 2 without the `if not auth_server_token` check.
Step2Failed_NoTokenCheck(r) == r.raised

\* `if not auth_server_token: return None` (and the except clause around step 2).
Step2Failed(r) == r.raised \/ Falsy(r.token)

\* The XAATokenInfo _perform_full_xaa_exchange builds after step 2.
BuildTokenInfo(c, r, d2) ==
    XAATokenInfo(c.id_jag_token, r.token, r.expires_in, c.scope, c.audience,
                 c.id_jag_duration, d2)

\* A manager that marks itself uninitialized when an exchange fails.
ManagerAfter_DegradeOnFailure(m, r) ==
    IF r = ReturnNone THEN [m EXCEPT !.initialized = FALSE] ELSE m

\* The manager once _perform_full_xaa_exchange has got to r (a return value, or
\* the next await): no statement of the method assigns an attribute of self.
ManagerAfter(m, r) == m

\* A gateway that sends a failed POST once more before it gives up.
WireAfterFailure_RetryOnce(w) == Append(w, w[Len(w)])

\* The requests of the exchange once a step has failed: the step's one
\* client.post is in no loop and the client has no retrying transport, so
\* nothing is sent again.
WireAfterFailure(w) == w

\* A new exchange starts when none is in flight.
StartCall(c) ==
    /\ pc = "idle"
    /\ call' = c

\* The exchange returns r to its caller.
Return(c, r) ==
    /\ pc' = "idle"
    /\ call' = c
    /\ ret' = r

\* _perform_full_xaa_exchange up to the first await: the availability check and
\* the step-1 POST.
PerformFullXaaExchange(id_token, auth_server_id, audience, scope) ==
    /\ StartCall(NewCall("xaa", "chat", id_token, auth_server_id, audience, scope))
    /\ IF ~is_available(xaa_manager)
       THEN /\ ret' = ReturnNone
            /\ pc' = "idle"
            /\ wire' = <<>>
       ELSE /\ ret' = NotReturned
            /\ pc' = "step1"
            /\ wire' = <<Step1Request(xaa_manager, id_token, audience, now)>>
    /\ UNCHANGED <<config, others, suspended, token_cache, now>>

\* The audience exchange_for_mcp_token / exchange_for_google_token pass for step 1.
TargetIssuer(m, auth_server_id) == IssuerUrl(m.okta_domain, auth_server_id)

\* exchange_for_mcp_token(id_token, scope)
ExchangeForMcpToken(id_token, scope) ==
    PerformFullXaaExchange(id_token, xaa_manager.default_auth_server_id,
                           TargetIssuer(xaa_manager, xaa_manager.default_auth_server_id),
                           <<scope>>)

\* exchange_for_google_token(id_token, scope)
ExchangeForGoogleToken(id_token, scope) ==
    IF xaa_manager.google_auth_server_id = None
    THEN /\ StartCall(NewCall("xaa", "chat", id_token, None, NoUri, <<scope>>))
         /\ ret' = ReturnNone
         /\ wire' = <<>>
         /\ UNCHANGED <<config, others, suspended, token_cache, now, pc>>
    ELSE PerformFullXaaExchange(id_token, xaa_manager.google_auth_server_id,
                                TargetIssuer(xaa_manager, xaa_manager.google_auth_server_id),
                                <<scope>>)

\* The step-1 response arrives: _exchange_id_for_id_jag returns, the duration is
\* taken, and either the exchange ends with None or the step-2 POST goes out.
Step1Response(resp, elapsed) ==
    /\ pc = "step1"
    /\ LET r == IdJagResult(resp)
           c == [call EXCEPT !.resp1 = resp]
       IN  IF Step1Failed(r)
           THEN /\ Return(c, ReturnNone)
                /\ wire' = WireAfterFailure(wire)
           ELSE /\ ret' = NotReturned
                /\ pc' = "step2"
                /\ call' = [c EXCEPT !.id_jag_token = r.token,
                                     !.id_jag_duration = DurationMs(elapsed)]
                /\ wire' = Append(wire, Step2Request(xaa_manager, r.token,
                                                     c.auth_server_id, c.scope, now))
    /\ xaa_manager' = ManagerAfter(xaa_manager, ret')
    /\ UNCHANGED <<env, okta_service, others, suspended, token_cache, now>>

\* The step-2 response arrives: _exchange_id_jag_for_access_token returns and
\* _perform_full_xaa_exchange returns None or the XAATokenInfo.
Step2Response(resp, elapsed) ==
    /\ pc = "step2"
    /\ LET r == AccessTokenResult(resp)
           c == [call EXCEPT !.resp2 = resp]
       IN  Return(c, IF Step2Failed(r) THEN ReturnNone
                     ELSE BuildTokenInfo(c, r, DurationMs(elapsed)))
    /\ wire' = IF ret' = ReturnNone THEN WireAfterFailure(wire) ELSE wire
    /\ xaa_manager' = ManagerAfter(xaa_manager, ret')
    /\ UNCHANGED <<env, okta_service, others, suspended, token_cache, now>>

-----------------------------------------------------------------------------
(* OktaService.exchange_token *)

\* str(uuid.uuid4()) as jti: a fresh identifier.
FreshJti == "uuid4"

\* OktaService._create_actor_token: the claims of the JWT naming the agent.
CreateActorToken(svc, t) ==
    [iss |-> Uri("https", svc.domain, <<>>), sub |-> svc.agent_id, aud |-> svc.token_url,
     iat |-> t, exp |-> t + AssertionLifetime, jti |-> FreshJti]

\* The aud OktaService._create_client_assertion puts in the assertion.
OktaAssertionAud(svc) == svc.token_url

\* OktaService._create_client_assertion: claims and header of the client assertion.
OktaCreateClientAssertion(svc, t) ==
    [iss |-> svc.client_id, sub |-> svc.client_id, aud |-> OktaAssertionAud(svc),
     iat |-> t, exp |-> t + AssertionLifetime, jti |-> FreshJti, kid |-> svc.private_key_kid]

\* The POST of OktaService.exchange_token.
ExchangeRequest(svc, subject_token, target_audience, requested_scopes, t) ==
    [by |-> "okta", step |-> "exchange", url |-> svc.token_url,
     grant_type |-> "urn:ietf:params:oauth:grant-type:token-exchange",
     token |-> subject_token, actor_token |-> CreateActorToken(svc, t),
     audience |-> target_audience, scope |-> requested_scopes,
     client_assertion |-> OktaCreateClientAssertion(svc, t)]

\* `while actor: chain.append(actor.get("sub", "unknown")); actor = actor.get("act")`
RECURSIVE ActorChain(_)
ActorChain(actor) ==
    IF DOMAIN actor = {} THEN <<>>
    ELSE <<IF "sub" \in DOMAIN actor THEN actor.sub ELSE "unknown">>
         \o (IF "act" \in DOMAIN actor THEN ActorChain(actor.act) ELSE <<>>)

\* The chain with the token's own sub appended after the actors.
DelegationChain_SubjectLast(access_token) ==
    LET claims == JwtDecode(access_token)
    IN  IF ~claims.ok THEN <<>>
        ELSE ActorChain(claims.act) \o (IF Falsy(claims.sub) THEN <<>> ELSE <<claims.sub>>)

\* The delegation chain exchange_token reads from the new access token: the
\* sub of each nested act claim, then `insert(0, claims["sub"])`; empty when the
\* token does not decode.
DelegationChain(access_token) ==
    LET claims == JwtDecode(access_token)
    IN  IF ~claims.ok THEN <<>>
        ELSE (IF Falsy(claims.sub) THEN <<>> ELSE <<claims.sub>>) \o ActorChain(claims.act)

\* OktaService._simulated_token_exchange; uuid is the random part of the token.
SimulatedTokenExchange(svc, subject_token, requested_scopes, uuid) ==
    LET claims == JwtDecode(subject_token)
        user_sub == IF claims.ok /\ claims.sub # None THEN claims.sub ELSE "unknown-user"
    IN  TokenExchangeResponse(uuid, SimulatedExpiresIn,
                              IF requested_scopes # <<>> THEN requested_scopes ELSE <<"read_data">>,
                              <<user_sub, svc.agent_id>>)

\* The real exchange failed: non-200, or an exception in the try block (the
\* request raised, or the 200 body has no access_token).
RealExchangeFailed(resp) ==
    resp.kind = "raise" \/ resp.status # HttpOk \/ resp.access_token = None

\* What exchange_token returns once the response is in.
ExchangeTokenResult(svc, resp, subject_token, requested_scopes, uuid) ==
    IF RealExchangeFailed(resp)
    THEN SimulatedTokenExchange(svc, subject_token, requested_scopes, uuid)
    ELSE TokenExchangeResponse(resp.access_token,
                               IF resp.expires_in = Absent THEN DefaultExpiresIn ELSE resp.expires_in,
                               <<>>, DelegationChain(resp.access_token))

-----------------------------------------------------------------------------
(* MCPClient token cache and the /token/exchange route *)

\* cache_key = hash(user_token[:50])
CacheKey(user_token) == First50(user_token)

EmptyCache == [k \in {} |-> [access_token |-> None, expires_at |-> 0]]

\* A cache lookup that admits an entry up to and including its expiry instant.
CacheHit_Inclusive(cache, key, t) == key \in DOMAIN cache /\ cache[key].expires_at >= t

\* `cache_key in self._token_cache` and `cached.get("expires_at", 0) > time.time()`
CacheHit(cache, key, t) == key \in DOMAIN cache /\ cache[key].expires_at > t

\* A store that writes the token and leaves the expiry of an entry already there.
CachePut_TornEntry(cache, key, result, t) ==
    [k \in DOMAIN cache \cup {key} |->
        IF k = key THEN [access_token |-> result.access_token,
                         expires_at |-> IF key \in DOMAIN cache THEN cache[key].expires_at
                                        ELSE t + result.expires_in - CacheBuffer]
        ELSE cache[k]]

\* self._token_cache[cache_key] = {...}
CachePut(cache, key, result, t) ==
    [k \in DOMAIN cache \cup {key} |->
        IF k = key THEN [access_token |-> result.access_token,
                         expires_at |-> t + result.expires_in - CacheBuffer]
        ELSE cache[k]]

\* AuditService.log_token_exchange: the entry appended to the audit log.
LogTokenExchange(target_audience, result, delegation_chain) ==
    [action |-> "token_exchange", result |-> result, resource |-> target_audience,
     delegation_chain |-> delegation_chain]

\* What the caller of exchange_token does with the result: the MCP client caches
\* it and returns the access token, the route logs the exchange to the audit
\* log (the events of the call are kept in call.audit) and returns the result.
Deliver(c, result) ==
    /\ IF c.via = "mcp"
       THEN /\ token_cache' = CachePut(token_cache, CacheKey(c.subject_token), result, now)
            /\ Return([c EXCEPT !.result = result], McpToken(result.access_token))
       ELSE /\ token_cache' = token_cache
            /\ Return([c EXCEPT !.result = result,
                                !.audit = <<LogTokenExchange(c.audience, "success",
                                                             result.delegation_chain)>>],
                      result)

\* OktaService.exchange_token up to the await: simulated at once without a
\* private key, else the POST goes out.
ExchangeToken(c, uuid) ==
    IF ~HasPrivateKey(okta_service)
    THEN /\ Deliver(c, SimulatedTokenExchange(okta_service, c.subject_token, c.scope, uuid))
         /\ wire' = <<>>
    ELSE /\ pc' = "okta"
         /\ call' = c
         /\ ret' = NotReturned
         /\ wire' = <<ExchangeRequest(okta_service, c.subject_token, c.audience, c.scope, now)>>
         /\ token_cache' = token_cache

\* MCPClient._exchange_token_for_mcp(user_token): served from the cache, or
\* exchanged for the audience api://default.
exchange_token_for_mcp(user_token, uuid) ==
    /\ pc = "idle"
    /\ LET c == NewCall("okta", "mcp", user_token, None, McpAudience, <<"read:data", "write:data">>)
           key == CacheKey(user_token)
       IN  IF CacheHit(token_cache, key, now)
           THEN /\ Return([c EXCEPT !.hit = TRUE], McpToken(token_cache[key].access_token))
                /\ wire' = <<>>
                /\ token_cache' = token_cache
           ELSE ExchangeToken(c, uuid)

\* _exchange_token_for_mcp called for a token of its own.
ExchangeTokenForMcp(user_token, uuid) ==
    /\ exchange_token_for_mcp(user_token, uuid)
    /\ UNCHANGED <<config, others, suspended, now>>

\* Audiences and scopes a /token/exchange request may name.
RouteAudiences == {McpAudience, Uri("https", "resource.example", <<>>)}
RouteScopes == {<<>>, <<"read:data">>}
RouteTokens == {"idtok-bob"}

\* POST /token/exchange: the route hands the bearer token to exchange_token.
RouteExchangeToken(subject_token, target_audience, requested_scopes, uuid) ==
    /\ pc = "idle"
    /\ ExchangeToken(NewCall("okta", "route", subject_token, None, target_audience,
                             requested_scopes), uuid)
    /\ UNCHANGED <<config, others, suspended, now>>

\* The response to the exchange POST arrives; exchange_token returns.
ExchangeResponse(resp, uuid) ==
    /\ pc = "okta"
    /\ LET c == [call EXCEPT !.resp = resp]
       IN  Deliver(c, ExchangeTokenResult(okta_service, resp, c.subject_token, c.scope, uuid))
    /\ UNCHANGED <<config, others, suspended, now, wire>>

\* Time passes.
Tick ==
    /\ now < MaxTime
    /\ now' = now + 1
    /\ UNCHANGED <<config, others, suspended, token_cache, pc, call, wire, ret>>

-----------------------------------------------------------------------------
(* MCP server: token validation and the tool endpoints *)

\* OKTA_ISSUER of token_validator.py.
OKTA_ISSUER == IssuerUrl("qa-aiagentsproducttc1.trexcloud.com", "default")

\* A token as the server sees it: the number of dot-separated parts, whether
\* the header and the payload are base64url JSON, and the claims of the payload
\* (exp is Absent when the payload has none).
Jwt(parts, header, payload, exp, iss, aud) ==
    [parts |-> parts, header |-> header, payload |-> payload,
     exp |-> exp, iss |-> iss, aud |-> aud]

\* Tokens a client may present, and token.split('.') with the two base64url
\* decodings applied to each. The tokens Okta issues are JWTs of the MCP
\* audience; the simulated tokens of the backend have no dot. One token is of
\* another issuer, one of another audience.
PresentedTokens ==
    {"jwt-good", "jwt-expired", "jwt-exp-0", "jwt-no-exp", "jwt-other-iss",
     "jwt-other-aud", "two-parts", "bad-header", "bad-payload"}
SplitAndDecode(token) ==
    CASE token \in {"jwt-good", "tok-1", "tok-2"} -> Jwt(3, TRUE, TRUE, 2, OKTA_ISSUER, McpAudience)
      [] token = "jwt-expired" -> Jwt(3, TRUE, TRUE, 1, OKTA_ISSUER, McpAudience)
      [] token = "jwt-exp-0" -> Jwt(3, TRUE, TRUE, 0, OKTA_ISSUER, McpAudience)
      [] token = "jwt-no-exp" -> Jwt(3, TRUE, TRUE, Absent, OKTA_ISSUER, McpAudience)
      [] token = "jwt-other-iss" -> Jwt(3, TRUE, TRUE, 2, IssuerUrl("evil.example", "default"), McpAudience)
      [] token = "jwt-other-aud" -> Jwt(3, TRUE, TRUE, 2, OKTA_ISSUER, Uri("api", "payroll", <<>>))
      [] token = "two-parts" -> Jwt(2, TRUE, TRUE, Absent, NoUri, NoUri)
      [] token = "bad-header" -> Jwt(3, FALSE, TRUE, Absent, NoUri, NoUri)
      [] token = "bad-payload" -> Jwt(3, TRUE, FALSE, Absent, NoUri, NoUri)
      [] OTHER -> Jwt(1, FALSE, FALSE, Absent, NoUri, NoUri)

\* decode_jwt_header(token) is not None / decode_jwt_payload(token) is not None.
decode_jwt_header(token) ==
    LET j == SplitAndDecode(token) IN j.parts = 3 /\ j.header
decode_jwt_payload(token) ==
    LET j == SplitAndDecode(token) IN j.parts = 3 /\ j.payload

\* time.time() as the server reads it while it validates.
ServerTimes == {1, 2}

TokenValidationResult(valid, error) == [valid |-> valid, error |-> error]

\* `if exp: if time.time() > exp`: a payload without exp, or with exp 0, has
\* no expiry the server enforces.
ExpiryEnforced(exp) == exp # Absent /\ exp # 0

\* validate_token(token): structure and expiry decide; an issuer mismatch is
\* logged only, the audience is never read.
validate_token(token, t) ==
    IF Falsy(token) THEN TokenValidationResult(FALSE, "No token provided")
    ELSE IF ~decode_jwt_header(token)
    THEN TokenValidationResult(FALSE, "Invalid token format - cannot decode header")
    ELSE IF ~decode_jwt_payload(token)
    THEN TokenValidationResult(FALSE, "Invalid token format - cannot decode payload")
    ELSE IF ExpiryEnforced(SplitAndDecode(token).exp) /\ t > SplitAndDecode(token).exp
    THEN TokenValidationResult(FALSE, "Token expired")
    ELSE TokenValidationResult(TRUE, None)

\* Request headers: Authorization as scheme and credentials, and mcp_token.
NoAuthorization == [scheme |-> None, credentials |-> None]
Bearer(token) == [scheme |-> "Bearer", credentials |-> token]
Headers(authorization, mcp_token) == [authorization |-> authorization, mcp_token |-> mcp_token]

\* extract_token_from_headers(headers): the Bearer credentials, else the
\* mcp_token header, else None.
extract_token_from_headers(headers) ==
    IF headers.authorization.scheme = "Bearer" THEN headers.authorization.credentials
    ELSE IF ~Falsy(headers.mcp_token) THEN headers.mcp_token
    ELSE None

\* validate_request_token(headers): a request without a token is let through.
validate_request_token(headers, t) ==
    LET token == extract_token_from_headers(headers)
    IN  IF Falsy(token) THEN TokenValidationResult(TRUE, None)
        ELSE validate_token(token, t)

\* Thresholds and recipients of tools/payments.py.
LOW_RISK_THRESHOLD == 1000
MEDIUM_RISK_THRESHOLD == 10000
Recipients == {"", "acme corp", "offshore holdings"}
Amounts == {0, 1000, 10000, 10001}
RecipientRiskScore(recipient) ==
    CASE recipient = "acme corp" -> "low"
      [] recipient = "offshore holdings" -> "high"
      [] OTHER -> "unknown"

\* assess_payment_risk(amount, recipient)["overall_risk"]; of the recipients
\* of the model only acme corp is verified.
assess_payment_risk(amount, recipient) ==
    IF amount > MEDIUM_RISK_THRESHOLD \/ RecipientRiskScore(recipient) = "high" THEN "high"
    ELSE IF amount > LOW_RISK_THRESHOLD \/ RecipientRiskScore(recipient) = "medium"
            \/ recipient # "acme corp" THEN "medium"
    ELSE "low"

\* The dict a tool returns; NoResult when no tool ran.
ToolResult(success, status, risk_level, requires_approval) ==
    [success |-> success, status |-> status, risk_level |-> risk_level,
     requires_approval |-> requires_approval]
NoResult == ToolResult(FALSE, None, None, FALSE)

\* initiate_payment_data(amount, recipient, description)
initiate_payment_data(amount, recipient) ==
    IF amount <= 0 \/ recipient = "" THEN ToolResult(FALSE, "rejected", "error", FALSE)
    ELSE CASE assess_payment_risk(amount, recipient) = "low" ->
                 ToolResult(TRUE, "approved", "low", FALSE)
           [] assess_payment_risk(amount, recipient) = "medium" ->
                 ToolResult(TRUE, "approved_with_logging", "medium", FALSE)
           [] OTHER -> ToolResult(FALSE, "pending_approval", "high", TRUE)

\* A tool invocation as it reaches the server, and the answer of the server:
\* the HTTP status, the success field of the body and the result of the tool.
Paths == {"/tools/call", "/messages", "/tools/initiate_payment"}
ToolRequest(path, headers, amount, recipient) ==
    [path |-> path, headers |-> headers, tool_name |-> "initiate_payment",
     amount |-> amount, recipient |-> recipient]
ToolResponse(status_code, success, result) ==
    [status_code |-> status_code, success |-> success, result |-> result]
NoToolResponse == ToolResponse(0, FALSE, NoResult)

\* The request the server holds and, once handled, its answer and the time
\* the server read while validating.
NoRequest ==
    [request |-> ToolRequest(None, Headers(NoAuthorization, None), 0, ""),
     response |-> NoToolResponse, time |-> 0]

\* A request arrives at the server.
Receive(request) ==
    /\ mcp_server.request.path = None \/ mcp_server.response # NoToolResponse
    /\ mcp_server' = [request |-> request, response |-> NoToolResponse, time |-> 0]

\* POST /tools/call: 401 when validate_request_token fails, else the tool runs
\* and its success field is copied into the 200 body.
call_tool(t) ==
    /\ mcp_server.request.path = "/tools/call"
    /\ mcp_server.response = NoToolResponse
    /\ LET req == mcp_server.request
           result == initiate_payment_data(req.amount, req.recipient)
       IN  mcp_server' =
             [mcp_server EXCEPT
                !.time = t,
                !.response = IF ~validate_request_token(req.headers, t).valid
                             THEN ToolResponse(401, FALSE, NoResult)
                             ELSE ToolResponse(HttpOk, result.success, result)]
    /\ UNCHANGED <<config, token_cache, now, pc, call, wire, ret, suspended,
                   audit_entries, tool_call>>

\* POST /messages with method tools/call: process_mcp_message runs the tool;
\* the headers are not read.
mcp_messages_endpoint(t) ==
    /\ mcp_server.request.path = "/messages"
    /\ mcp_server.response = NoToolResponse
    /\ LET req == mcp_server.request
           result == initiate_payment_data(req.amount, req.recipient)
       IN  mcp_server' = [mcp_server EXCEPT !.time = t,
                                            !.response = ToolResponse(HttpOk, TRUE, result)]
    /\ UNCHANGED <<config, token_cache, now, pc, call, wire, ret, suspended,
                   audit_entries, tool_call>>

\* POST /tools/initiate_payment: the tool runs; the headers are not read.
initiate_payment_endpoint(t) ==
    /\ mcp_server.request.path = "/tools/initiate_payment"
    /\ mcp_server.response = NoToolResponse
    /\ LET req == mcp_server.request
           result == initiate_payment_data(req.amount, req.recipient)
       IN  mcp_server' = [mcp_server EXCEPT !.time = t,
                                            !.response = ToolResponse(HttpOk, result.success, result)]
    /\ UNCHANGED <<config, token_cache, now, pc, call, wire, ret, suspended,
                   audit_entries, tool_call>>

\* A client of the server sends a tool invocation on one of the three paths.
ClientHeaders ==
    {Headers(Bearer(tok), None) : tok \in PresentedTokens \cup {""}}
    \cup {Headers(NoAuthorization, m) : m \in {None, "jwt-expired", "jwt-good"}}
    \cup {Headers([scheme |-> "Basic", credentials |-> "dXNlcg"], None)}
ClientRequest(path, headers, amount, recipient) ==
    /\ Receive(ToolRequest(path, headers, amount, recipient))
    /\ UNCHANGED <<config, token_cache, now, pc, call, wire, ret, suspended,
                   audit_entries, tool_call>>

-----------------------------------------------------------------------------
(* Backend: the tool uses of process_message *)

\* self.approval_thresholds["initiate_payment"]
ApprovalThreshold == 10000

\* tool_input of a tool use: the amount (Absent when the key is missing) and
\* the recipient. arguments.get("amount", 0) reads a missing amount as 0.
InputAmounts == Amounts \cup {Absent}
AmountOf(amount) == IF amount = Absent THEN 0 ELSE amount

\* MCPClient.requires_approval(tool_name, arguments)
requires_approval_Inclusive(tool_name, amount) ==
    tool_name = "initiate_payment" /\ AmountOf(amount) >= ApprovalThreshold
requires_approval(tool_name, amount) ==
    tool_name = "initiate_payment" /\ AmountOf(amount) > ApprovalThreshold

MCPToolCallResponse(success, result, error) ==
    [success |-> success, result |-> result, error |-> error]
NoMcpResponse == MCPToolCallResponse(FALSE, NoResult, None)

\* The ToolCall of a tool use and where process_message is with it: stage is
\* "exchange" while _exchange_token_for_mcp runs, "post" while the POST to
\* /tools/call is out, "done" once the ToolCall is appended. tool_result is
\* what goes back to the model: the kind of dict and the tool's result in it.
ToolCall(amount, recipient, user_token, approval, status, stage, response, kind) ==
    [tool_name |-> "initiate_payment", amount |-> amount, recipient |-> recipient,
     user_token |-> user_token, requires_approval |-> approval, status |-> status,
     stage |-> stage, mcp_response |-> response,
     tool_output |-> IF status = "completed" THEN response.result ELSE NoResult,
     tool_result |-> kind]
NoToolCall == ToolCall(0, "", None, FALSE, "pending", "none", NoMcpResponse, None)

\* call_tool from the POST on: the request to /tools/call, with the exchanged
\* token as Bearer credentials when there is one.
PostToolsCall(tc, mcp_token) ==
    Receive(ToolRequest("/tools/call",
                        Headers(IF Falsy(mcp_token) THEN NoAuthorization ELSE Bearer(mcp_token),
                                None),
                        AmountOf(tc.amount), tc.recipient))

\* process_message meets a tool use of initiate_payment: the approval check,
\* then call_tool up to its first await (the token exchange when the user has
\* a token, else the POST).
process_message(amount, recipient, user_token, uuid) ==
    /\ pc = "idle"
    /\ tool_call.stage \in {"none", "done"}
    /\ IF requires_approval("initiate_payment", amount)
       THEN /\ tool_call' = ToolCall(amount, recipient, user_token, TRUE, "requires_approval",
                                     "done", NoMcpResponse, "pending_approval")
            /\ UNCHANGED <<mcp_server, token_cache, pc, call, wire, ret>>
       ELSE IF Falsy(user_token)
       THEN /\ tool_call' = ToolCall(amount, recipient, user_token, FALSE, "pending", "post",
                                     NoMcpResponse, None)
            /\ PostToolsCall(tool_call', None)
            /\ UNCHANGED <<token_cache, pc, call, wire, ret>>
       ELSE /\ tool_call' = ToolCall(amount, recipient, user_token, FALSE, "pending",
                                     "exchange", NoMcpResponse, None)
            /\ exchange_token_for_mcp(user_token, uuid)
            /\ UNCHANGED mcp_server
    /\ UNCHANGED <<config, suspended, now, audit_entries>>

\* _exchange_token_for_mcp has returned: call_tool posts the tool call.
call_tool_post ==
    /\ tool_call.stage = "exchange"
    /\ pc = "idle"
    /\ tool_call' = [tool_call EXCEPT !.stage = "post"]
    /\ PostToolsCall(tool_call, ret.access_token)
    /\ UNCHANGED <<config, suspended, now, audit_entries, token_cache, pc, call, wire, ret>>

\* call_tool on the response: 200 is success, whatever the body says.
CallToolResult(response) ==
    IF response.status_code = HttpOk THEN MCPToolCallResponse(TRUE, response.result, None)
    ELSE IF response.status_code = 403 THEN MCPToolCallResponse(FALSE, NoResult, "Access denied")
    ELSE MCPToolCallResponse(FALSE, NoResult, "detail")

\* process_message on the MCPToolCallResponse: COMPLETED on success, else FAILED.
Recorded(tc, mcp_response) ==
    ToolCall(tc.amount, tc.recipient, tc.user_token, FALSE,
             IF mcp_response.success THEN "completed" ELSE "failed", "done", mcp_response,
             IF mcp_response.success THEN "result" ELSE "error")

\* The response to the POST arrives: call_tool returns and process_message
\* records the tool call.
call_tool_response ==
    /\ tool_call.stage = "post"
    /\ mcp_server.response # NoToolResponse
    /\ tool_call' = Recorded(tool_call, CallToolResult(mcp_server.response))
    /\ UNCHANGED <<config, suspended, now, audit_entries, token_cache, pc, call, wire, ret,
                   mcp_server>>

\* The POST raised (the server was not reached): call_tool returns the error.
call_tool_raised ==
    /\ tool_call.stage = "post"
    /\ mcp_server.response = NoToolResponse
    /\ tool_call' = Recorded(tool_call, MCPToolCallResponse(FALSE, NoResult, "raised"))
    /\ mcp_server' = NoRequest
    /\ UNCHANGED <<config, suspended, now, audit_entries, token_cache, pc, call, wire, ret>>

-----------------------------------------------------------------------------
(* Backend: the audit log *)

\* Entries AuditService holds at most in the model.
MaxEntries == 2

AuditUsers == {"alice", "bob"}
AuditConversations == {"conv-1"}
AuditActions == {"tool_call", "token_exchange"}

\* AuditEntry: the fields get_entries reads. The timestamp of an entry is its
\* position in _entries.
AuditEntry(user_id, conversation_id, action) ==
    [user_id |-> user_id, conversation_id |-> conversation_id, action |-> action]

\* self._entries_by_user[user_id] and self._entries_by_conversation[id]: log
\* appends each entry to the list of its user and of its conversation.
EntriesByUser(entries, user_id) ==
    SelectSeq(entries, LAMBDA e : e.user_id = user_id)
EntriesByConversation(entries, conversation_id) ==
    SelectSeq(entries, LAMBDA e : e.conversation_id = conversation_id)

\* sorted(entries, key=lambda e: e.timestamp, reverse=True)
SortedDescending(entries) ==
    [i \in 1..Len(entries) |-> entries[Len(entries) + 1 - i]]

\* entries[offset:offset + limit]
Slice(entries, offset, limit) ==
    SubSeq(entries, offset + 1,
           IF offset + limit < Len(entries) THEN offset + limit ELSE Len(entries))

\* The base entries of get_entries: the list of the user when the user has
\* one, else the list of the conversation when it has one, else every entry.
BaseEntries(entries, user_id, conversation_id) ==
    IF user_id # None /\ EntriesByUser(entries, user_id) # <<>>
    THEN EntriesByUser(entries, user_id)
    ELSE IF conversation_id # None /\ EntriesByConversation(entries, conversation_id) # <<>>
    THEN EntriesByConversation(entries, conversation_id)
    ELSE entries

\* AuditService.get_entries(user_id, conversation_id, action, limit, offset)
get_entries(entries, user_id, conversation_id, action, limit, offset) ==
    LET base == BaseEntries(entries, user_id, conversation_id)
        filtered == IF action # None THEN SelectSeq(base, LAMBDA e : e.action = action)
                    ELSE base
        sorted == SortedDescending(filtered)
    IN  [kind |-> "entries", user_id |-> user_id, entries |-> Slice(sorted, offset, limit),
         total_count |-> Len(sorted)]

\* AuditService.log(action, result, user_id, conversation_id, ...)
log(action, user_id, conversation_id) ==
    /\ Len(audit_entries) < MaxEntries
    /\ audit_entries' = Append(audit_entries, AuditEntry(user_id, conversation_id, action))
    /\ UNCHANGED <<config, suspended, token_cache, now, pc, call, wire, ret, mcp_server,
                   tool_call>>

\* GET /audit: get_entries for the caller (user_id None when unauthenticated).
get_audit_log(user_id, conversation_id, limit, offset) ==
    /\ ret' = get_entries(audit_entries, user_id, conversation_id, None, limit, offset)
    /\ UNCHANGED <<config, suspended, token_cache, now, pc, call, wire, mcp_server,
                   audit_entries, tool_call>>

-----------------------------------------------------------------------------
(* Specifications *)

Boot(envs) ==
    /\ env \in envs
    /\ xaa_manager = XaaInitialize(env)
    /\ okta_service = OktaServiceInit(env)
    /\ token_cache = EmptyCache
    /\ now = 0
    /\ pc = "idle"
    /\ call = NoCall
    /\ wire = <<>>
    /\ ret = NotReturned
    /\ suspended = <<>>
    /\ mcp_server = NoRequest
    /\ audit_entries = <<>>
    /\ tool_call = NoToolCall

\* The XAA manager, started in every environment.
Init == Boot(Envs)

NextXaa ==
    \/ \E t \in IdTokens, s \in Scopes : ExchangeForMcpToken(t, s)
    \/ \E t \in IdTokens, s \in Scopes : ExchangeForGoogleToken(t, s)
    \/ \E r \in Step1Responses, e \in ElapsedMicros : Step1Response(r, e)
    \/ \E r \in Step2Responses, e \in ElapsedMicros : Step2Response(r, e)
    \/ Tick

SpecXaa == Init /\ [][NextXaa]_vars

\* OktaService behind the MCP client and the /token/exchange route; the
\* settings it does not read (the Google server) and the agent id are left unset.
OktaEnvs == {e \in Envs : e.OKTA_GOOGLE_AUTH_SERVER_ID = None /\ e.OKTA_AGENT_ID = None}

InitOkta == Boot(OktaEnvs)

NextOkta ==
    \/ \E t \in UserTokens, u \in SimulatedTokens : ExchangeTokenForMcp(t, u)
    \/ \E t \in RouteTokens, a \in RouteAudiences, sc \in RouteScopes, u \in SimulatedTokens :
          RouteExchangeToken(t, a, sc, u)
    \/ \E r \in ExchangeResponses, u \in SimulatedTokens : ExchangeResponse(r, u)
    \/ Tick

SpecOkta == InitOkta /\ [][NextOkta]_vars

\* Both gateways in the environments that leave both without a usable key:
\* every exchange then runs to its end inside the call.
UnconfiguredEnvs ==
    {e \in Envs : ~XaaInitialize(e).initialized /\ OktaServiceInit(e).private_key_pem = NoKey}

InitUnconfigured == Boot(UnconfiguredEnvs)

NextUnconfigured ==
    \/ \E t \in IdTokens, s \in Scopes : ExchangeForMcpToken(t, s)
    \/ \E t \in IdTokens, s \in Scopes : ExchangeForGoogleToken(t, s)
    \/ \E t \in UserTokens, u \in SimulatedTokens : ExchangeTokenForMcp(t, u)
    \/ \E t \in RouteTokens, a \in RouteAudiences, sc \in RouteScopes, u \in SimulatedTokens :
          RouteExchangeToken(t, a, sc, u)
    \/ Tick

SpecUnconfigured == InitUnconfigured /\ [][NextUnconfigured]_vars

\* The asyncio event loop: one task runs at a time, from one await to the next.
\* pc, call, wire and ret are the frame of the task that ran last; the frames of
\* the other tasks (suspended at their await, or finished) are in `suspended`.
Frame == [pc |-> pc, call |-> call, wire |-> wire, ret |-> ret]

\* Another request arrives while the task that ran last is at its await (or is
\* done): the loop starts a new task for it.
Spawn ==
    /\ call # NoCall
    /\ Len(suspended) < MaxTasks - 1
    /\ suspended' = Append(suspended, Frame)
    /\ pc' = "idle" /\ call' = NoCall /\ wire' = <<>> /\ ret' = NotReturned
    /\ UNCHANGED <<config, others, token_cache, now>>

\* The loop resumes task i, whose awaited response is ready.
Resume(i) ==
    /\ suspended[i].pc # "idle"
    /\ suspended' = [suspended EXCEPT ![i] = Frame]
    /\ pc' = suspended[i].pc /\ call' = suspended[i].call
    /\ wire' = suspended[i].wire /\ ret' = suspended[i].ret
    /\ UNCHANGED <<config, others, token_cache, now>>

\* Concurrent exchanges, both gateways configured; each task makes one call.
ConcurrentEnvs ==
    {e \in Envs : /\ e.OKTA_DOMAIN # None /\ e.OKTA_AGENT_ID # None
                  /\ e.OKTA_AGENT_PRIVATE_KEY = JwkGood
                  /\ e.OKTA_GOOGLE_AUTH_SERVER_ID = None}

ConcurrentExchangeResponses ==
    {Response("http", HttpOk, "tok-1", 61), Response("http", HttpOk, "tok-2", 60), Rejected}
ConcurrentStep1Responses == {Response("http", HttpOk, "tok-1", Absent), Rejected}
ConcurrentStep2Responses == {Response("http", HttpOk, "tok-2", 60), Raised}

InitConcurrent == Boot(ConcurrentEnvs)

NextConcurrent ==
    \/ \E t \in UserTokens, u \in SimulatedTokens : call = NoCall /\ ExchangeTokenForMcp(t, u)
    \/ \E r \in ConcurrentExchangeResponses, u \in SimulatedTokens : ExchangeResponse(r, u)
    \/ \E t \in IdTokens, sc \in Scopes : call = NoCall /\ ExchangeForMcpToken(t, sc)
    \/ \E r \in ConcurrentStep1Responses : Step1Response(r, 2500)
    \/ \E r \in ConcurrentStep2Responses : Step2Response(r, 2500)
    \/ Spawn
    \/ \E i \in DOMAIN suspended : Resume(i)

SpecConcurrent == InitConcurrent /\ [][NextConcurrent]_vars

\* What the await of client.post gives a task that is cancelled there: the
\* loop throws asyncio.CancelledError into the coroutine.
Cancelled == Response("cancel", 0, None, Absent)

\* Handlers that catch every exception, CancelledError included.
CaughtByExcept_Everything(exc) == TRUE

\* `except Exception`: CancelledError derives from BaseException and passes.
CaughtByExcept(exc) == exc # "CancelledError"

\* What a call raises to its caller.
RaisedToCaller(exc) == [kind |-> "raised", exc |-> exc]

\* The caller cancels the exchange in flight. The CancelledError leaves the
\* `async with httpx.AsyncClient()` block (the request is abandoned) and every
\* `except Exception` on its way; a handler that caught it would treat it as
\* any failure of the POST.
Cancel ==
    /\ pc # "idle"
    /\ IF CaughtByExcept("CancelledError")
       THEN CASE pc = "step1" -> /\ Return([call EXCEPT !.resp1 = Cancelled], ReturnNone)
                                 /\ token_cache' = token_cache
              [] pc = "step2" -> /\ Return([call EXCEPT !.resp2 = Cancelled], ReturnNone)
                                 /\ token_cache' = token_cache
              [] pc = "okta" ->
                    \E u \in SimulatedTokens :
                        Deliver([call EXCEPT !.resp = Cancelled],
                                SimulatedTokenExchange(okta_service, call.subject_token,
                                                       call.scope, u))
       ELSE /\ Return([call EXCEPT !.resp1 = IF pc = "step1" THEN Cancelled ELSE @,
                                   !.resp2 = IF pc = "step2" THEN Cancelled ELSE @,
                                   !.resp = IF pc = "okta" THEN Cancelled ELSE @],
                      RaisedToCaller("CancelledError"))
            /\ token_cache' = token_cache
    /\ UNCHANGED <<config, others, suspended, now, wire>>

\* Exchanges of configured gateways that the caller may cancel.
InitCancel == Boot(ConcurrentEnvs)

NextCancel ==
    \/ \E t \in UserTokens, u \in SimulatedTokens : ExchangeTokenForMcp(t, u)
    \/ \E r \in ConcurrentExchangeResponses, u \in SimulatedTokens : ExchangeResponse(r, u)
    \/ \E t \in IdTokens, sc \in Scopes : ExchangeForMcpToken(t, sc)
    \/ \E r \in ConcurrentStep1Responses : Step1Response(r, 2500)
    \/ \E r \in ConcurrentStep2Responses : Step2Response(r, 2500)
    \/ Cancel
    \/ Tick

SpecCancel == InitCancel /\ [][NextCancel]_vars

\* chat(): the XAATokenInfo's auth_server_token becomes mcp_access_token, goes
\* to process_message as user_token and from there to mcp_client.call_tool, which
\* hands it to _exchange_token_for_mcp (`if user_token:`).
ChatCallTool(uuid) ==
    /\ call.gateway = "xaa"
    /\ ~Falsy(DownstreamToken(ret))
    /\ ExchangeTokenForMcp(DownstreamToken(ret), uuid)

\* A chat request on configured gateways: the exchange by the XAA manager, then
\* the tool call of the MCP client.
InitChat == Boot(ConcurrentEnvs)

NextChat ==
    \/ \E t \in IdTokens, sc \in Scopes : ExchangeForMcpToken(t, sc)
    \/ \E r \in Step1Responses, e \in ElapsedMicros : Step1Response(r, e)
    \/ \E r \in Step2Responses, e \in ElapsedMicros : Step2Response(r, e)
    \/ \E u \in SimulatedTokens : ChatCallTool(u)
    \/ \E r \in ExchangeResponses, u \in SimulatedTokens : ExchangeResponse(r, u)
    \/ Tick

SpecChat == InitChat /\ [][NextChat]_vars

\* OktaService.exchange_token with its key loaded, answered with access tokens
\* whose act claims nest to different depths.
ChainTokens == {"tok-1", "tok-2", "tok-3", "tok-4", "tok-5", "tok-6"}
ChainResponses == {Response("http", HttpOk, t, 3600) : t \in ChainTokens} \cup {Rejected}
ChainEnvs == {e \in OktaEnvs : e.OKTA_AGENT_PRIVATE_KEY = JwkGood}

InitChain == Boot(ChainEnvs)

NextChain ==
    \/ \E t \in UserTokens, u \in SimulatedTokens : ExchangeTokenForMcp(t, u)
    \/ \E t \in RouteTokens, a \in RouteAudiences, sc \in RouteScopes, u \in SimulatedTokens :
          RouteExchangeToken(t, a, sc, u)
    \/ \E r \in ChainResponses, u \in SimulatedTokens : ExchangeResponse(r, u)
    \/ Tick

SpecChain == InitChain /\ [][NextChain]_vars

\* The MCP server, sent tool invocations on its three paths.
ServerEnvs == {e \in ChainEnvs : e.OKTA_DOMAIN # None}

InitMcpServer == Boot(ServerEnvs)

NextMcpServer ==
    \/ \E p \in Paths, h \in ClientHeaders, a \in Amounts, r \in Recipients :
          ClientRequest(p, h, a, r)
    \/ \E t \in ServerTimes : call_tool(t)
    \/ \E t \in ServerTimes : mcp_messages_endpoint(t)
    \/ \E t \in ServerTimes : initiate_payment_endpoint(t)

SpecMcpServer == InitMcpServer /\ [][NextMcpServer]_vars

\* The tool uses of process_message, with the exchange of OktaService and the
\* MCP server behind them.

InitTools == Boot(ServerEnvs)

NextTools ==
    \/ \E a \in InputAmounts, r \in Recipients, t \in {None, "idtok-alice-1"},
          u \in SimulatedTokens :
          process_message(a, r, t, u)
    \/ \E r \in {Response("http", HttpOk, "tok-1", 61), Rejected}, u \in SimulatedTokens :
          ExchangeResponse(r, u)
    \/ call_tool_post
    \/ \E t \in ServerTimes : call_tool(t)
    \/ call_tool_response
    \/ call_tool_raised

SpecTools == InitTools /\ [][NextTools]_vars

\* The audit log: entries logged for users and conversations, and read
\* through GET /audit.

InitAudit == Boot(ServerEnvs)

NextAudit ==
    \/ \E a \in AuditActions, u \in AuditUsers \cup {None}, c \in AuditConversations \cup {None} :
          log(a, u, c)
    \/ \E u \in AuditUsers \cup {None}, c \in AuditConversations \cup {None},
          l \in {1, 50}, o \in {0, 1} : get_audit_log(u, c, l, o)

SpecAudit == InitAudit /\ [][NextAudit]_vars

-----------------------------------------------------------------------------
(* Properties *)

\* The conditions of the claims, stated on the environment and on the answers
\* of the authorization server.
KeyUsable(key) ==
    /\ key.form = "jwk"
    /\ RsaComponents \subseteq DOMAIN key.comps
    /\ key.comps["p"] * key.comps["q"] = key.comps["n"]

\* The XAA manager lacks the domain, the agent id or a usable key.
XaaUnconfigured ==
    env.OKTA_DOMAIN = None \/ env.OKTA_AGENT_ID = None \/ ~KeyUsable(env.OKTA_AGENT_PRIVATE_KEY)

\* OktaService lacks a usable key (settings supply its domain and ids).
OktaUnconfigured == ~KeyUsable(env.OKTA_AGENT_PRIVATE_KEY)

\* An answer is in and it is not a 200 carrying an access_token.
Answered(resp) == resp # NoResponse
NoTokenIn(resp) == resp.kind = "raise" \/ resp.status # HttpOk \/ resp.access_token = None
RejectedBy(resp) == resp.kind = "http" /\ resp.status # HttpOk

SentTo(url) == \E i \in DOMAIN wire : wire[i].url = url
Finished(gateway) == pc = "idle" /\ call.gateway = gateway
IsResult(r) == r.kind \in {"XAATokenInfo", "TokenExchangeResponse", "str"}

\* C1: on a configured gateway, once step 1 has failed (no 200, or no
\* access_token in the body) the exchange has sent nothing to the step-2 token
\* endpoint, sends nothing more, and returns no downstream token.
C1_Step1FailureEndsExchange ==
    (call.gateway = "xaa" /\ ~XaaUnconfigured /\ Answered(call.resp1) /\ NoTokenIn(call.resp1))
        => /\ pc = "idle"
           /\ Len(wire) = 1
           /\ ~SentTo(AuthServerTokenUrl(xaa_manager.okta_domain, call.auth_server_id))
           /\ DownstreamToken(ret) = None

C1_Witness ==
    Finished("xaa") /\ ~XaaUnconfigured /\ call.resp1 = Rejected /\ Len(wire) = 1

\* C2: on a gateway with its key loaded, a failed real exchange is returned
\* to the caller as a failure, never as a result, and a simulated token is
\* returned only by an unconfigured gateway.
C2_FailurePropagates ==
    /\ (Finished("okta") /\ ~OktaUnconfigured /\ Answered(call.resp) /\ NoTokenIn(call.resp))
          => ~IsResult(ret)
    /\ (Finished("okta") /\ DownstreamToken(ret) \in SimulatedTokens) => OktaUnconfigured

\* C3: a result returned by the exchange carries the ID-JAG that step 1
\* answered and the downstream token that step 2 answered, both present; when
\* step 2 fails after step 1 succeeded the caller gets no result.
C3_ResultIsComplete ==
    /\ (Finished("xaa") /\ IsResult(ret))
          => /\ ~NoTokenIn(call.resp1) /\ ret.id_jag_token = call.resp1.access_token
             /\ ~NoTokenIn(call.resp2) /\ ret.auth_server_token = call.resp2.access_token
             /\ ~Falsy(ret.id_jag_token) /\ ~Falsy(ret.auth_server_token)
    /\ (Finished("xaa") /\ Answered(call.resp2) /\ NoTokenIn(call.resp2)) => ret = ReturnNone

C3_Witness ==
    Finished("xaa") /\ ~NoTokenIn(call.resp1) /\ call.resp2 = Rejected /\ ret = ReturnNone

\* C4: an exchange on an unconfigured gateway sends no HTTP request to the
\* authorization server: it ends inside the call with nothing on the wire,
\* whatever the input and whatever calls came before.
C4_UnconfiguredSendsNothing ==
    ((call.gateway = "xaa" /\ XaaUnconfigured) \/ (call.gateway = "okta" /\ OktaUnconfigured))
        => wire = <<>> /\ pc = "idle"

C4_Witness ==
    Finished("xaa") /\ XaaUnconfigured /\ token_cache # EmptyCache /\ wire = <<>>

\* C5: an exchange on an unconfigured gateway returns a result, never None,
\* and the result carries simulated = true.
C5_UnconfiguredReturnsSimulated ==
    ((Finished("xaa") /\ XaaUnconfigured) \/ (Finished("okta") /\ OktaUnconfigured))
        => /\ IsResult(ret)
           /\ "simulated" \in DOMAIN ret
           /\ ret.simulated = TRUE

\* C6: a non-200 answer to step 1 (step 2) is returned as an ExchangeError
\* naming the step "id_jag" ("access_token") with the HTTP status, so the
\* returned value differs from the one an unconfigured gateway returns.
C6_TypedExchangeError ==
    /\ (Finished("xaa") /\ RejectedBy(call.resp1))
          => /\ ret.kind = "ExchangeError"
             /\ ret.step = "id_jag"
             /\ ret.status = call.resp1.status
    /\ (Finished("xaa") /\ RejectedBy(call.resp2))
          => /\ ret.kind = "ExchangeError"
             /\ ret.step = "access_token"
             /\ ret.status = call.resp2.status

\* C7: when step 1 answers 200 with access_token X and step 2 answers 200
\* with access_token Y and expires_in E, the exchange returns idJagToken = X,
\* downstreamToken = Y, expiresIn = E and a positive duration for each step.
C7_SuccessfulExchangeResult ==
    (/\ Finished("xaa")
     /\ ~NoTokenIn(call.resp1) /\ call.resp1.access_token # ""
     /\ ~NoTokenIn(call.resp2) /\ call.resp2.access_token # ""
     /\ call.resp2.expires_in # Absent)
        => /\ ret.kind = "XAATokenInfo"
           /\ ret.id_jag_token = call.resp1.access_token
           /\ ret.auth_server_token = call.resp2.access_token
           /\ ret.expires_in = call.resp2.expires_in
           /\ ret.id_jag_duration_ms > 0
           /\ ret.auth_server_duration_ms > 0

\* C8: every token-exchange request on the wire names as audience the issuer
\* URL of an authorization server of the Okta tenant, never a resource
\* identifier such as api://default.
IsIssuerUrl(u) ==
    u.scheme = "https" /\ Len(u.path) = 2 /\ u.path[1] = "oauth2"

C8_AudienceIsIssuerUrl ==
    \A i \in DOMAIN wire :
        wire[i].grant_type = "urn:ietf:params:oauth:grant-type:token-exchange"
            => IsIssuerUrl(wire[i].audience) /\ wire[i].audience # McpAudience

\* C9: the client assertion of every POST is made out to the URL the POST
\* goes to: the org-level token endpoint for step 1, the token endpoint of
\* the authorization server for step 2.
C9_AssertionAudIsEndpoint ==
    \A i \in DOMAIN wire :
        /\ wire[i].client_assertion.aud = wire[i].url
        /\ wire[i].step = "id_jag" => wire[i].url = OrgTokenUrl(xaa_manager.okta_domain)
        /\ wire[i].step = "access_token"
              => wire[i].url = AuthServerTokenUrl(xaa_manager.okta_domain, call.auth_server_id)

C9_Witness == Finished("xaa") /\ Len(wire) = 2 /\ IsResult(ret)

\* C10: a call that follows a call with the same subject token and audience,
\* while the token that call returned is still valid, sends no request and
\* returns the same downstream token.
TokenLifetime ==
    CASE ret.kind = "XAATokenInfo" -> ret.expires_in
      [] call.result.kind = "TokenExchangeResponse" -> call.result.expires_in
      [] OTHER -> 0

C10_SecondCallServedFromCache ==
    [][(/\ pc = "idle" /\ call.gateway # "none" /\ DownstreamToken(ret) # None
        /\ call' # call
        /\ call'.gateway = call.gateway
        /\ call'.subject_token = call.subject_token
        /\ call'.audience = call.audience
        /\ now < call.begun + TokenLifetime)
           => /\ pc' = "idle"
              /\ wire' = <<>>
              /\ DownstreamToken(ret') = DownstreamToken(ret)]_vars

\* The entry of the cache that a lookup for the call's subject token reads.
LookupKey(c) == CacheKey(c.subject_token)

\* A step in which _exchange_token_for_mcp is entered and does its lookup.
McpLookupStep == pc = "idle" /\ now' = now /\ call'.via = "mcp"

\* A step in which _exchange_token_for_mcp stores the token it was handed.
McpStoreStep ==
    /\ call'.via = "mcp" /\ ~call'.hit /\ pc' = "idle"
    /\ pc = "okta" \/ McpLookupStep

\* C11: an entry stored at time t for a token of lifetime expiresIn carries
\* the expiry t + expiresIn - 60; a lookup is served from the cache exactly
\* when it happens strictly before that expiry, and any other lookup is a miss
\* that starts a new exchange (so an entry with expiresIn <= 60 is never served).
C11_ServedStrictlyBeforeExpiry ==
    [][/\ McpStoreStep
          => token_cache'[LookupKey(call')].expires_at
                = now + call'.result.expires_in - 60
       /\ McpLookupStep
          => LET key == LookupKey(call')
                 live == key \in DOMAIN token_cache /\ now < token_cache[key].expires_at
             IN  /\ call'.hit <=> live
                 /\ call'.hit => /\ pc' = "idle" /\ wire' = <<>>
                                 /\ token_cache' = token_cache
                                 /\ DownstreamToken(ret') = token_cache[key].access_token
                 /\ ~call'.hit => \/ pc' = "okta" /\ Len(wire') = 1
                                  \/ pc' = "idle" /\ call'.result.kind = "TokenExchangeResponse"]_vars

\* A lookup made at the very instant the entry expires was a miss and the
\* exchange request is out.
C11_Witness ==
    /\ pc = "okta" /\ call.via = "mcp" /\ ~call.hit
    /\ LookupKey(call) \in DOMAIN token_cache
    /\ token_cache[LookupKey(call)].expires_at = call.begun

C13_StateFixedAtConstruction ==
    [][/\ is_available(xaa_manager') = is_available(xaa_manager)
       /\ xaa_manager'.agent_id = xaa_manager.agent_id
       /\ xaa_manager'.private_key = xaa_manager.private_key
       /\ xaa_manager'.kid = xaa_manager.kid
       /\ xaa_manager'.okta_domain = xaa_manager.okta_domain
       /\ HasPrivateKey(okta_service') = HasPrivateKey(okta_service)
       /\ okta_service' = okta_service]_vars

\* A ready manager is still ready after an exchange that failed at step 2.
C13_Witness ==
    Finished("xaa") /\ is_available(xaa_manager) /\ call.resp2 = Raised /\ ret = ReturnNone

\* C14: construction of the gateways never raises, and with the domain, the
\* agent id or the key missing, a key that is not JSON, or a JWK that lacks an
\* RSA component or has p*q # n, the gateway constructed is unconfigured.
C14_ConstructionNeverRaises ==
    /\ ~XaaConstructionRaises(env)
    /\ ~OktaConstructionRaises(env)
    /\ XaaUnconfigured => ~is_available(xaa_manager) /\ xaa_manager.private_key = NoKey
    /\ OktaUnconfigured => ~HasPrivateKey(okta_service)

\* A manager constructed from a JWK without d: the kid was read, the key was
\* not loaded, and an exchange on it has returned.
C14_Witness ==
    /\ env.OKTA_DOMAIN # None /\ env.OKTA_AGENT_ID # None
    /\ env.OKTA_AGENT_PRIVATE_KEY = JwkMissingD
    /\ xaa_manager.kid = "kid-1" /\ ~is_available(xaa_manager)
    /\ Finished("xaa")

\* The frames of all tasks: the one that ran last, then the others.
Frames == <<Frame>> \o suspended
Done(f) == f.pc = "idle" /\ f.call # NoCall
Stored(f) == Done(f) /\ f.call.via = "mcp" /\ ~f.call.hit

\* What a finished call returned follows from its own arguments and the
\* answers to its own requests (or, for a cache hit, from an entry a call stored).
OwnResult(f) ==
    /\ \A i \in DOMAIN f.wire :
          f.wire[i].token = (IF f.wire[i].step = "access_token" THEN f.call.resp1.access_token
                             ELSE f.call.subject_token)
    /\ (f.call.gateway = "xaa")
          => /\ IsResult(f.ret) <=> (~NoTokenIn(f.call.resp1) /\ ~NoTokenIn(f.call.resp2))
             /\ IsResult(f.ret) => /\ f.ret.id_jag_token = f.call.resp1.access_token
                                   /\ f.ret.auth_server_token = f.call.resp2.access_token
    /\ (f.call.via = "mcp" /\ ~f.call.hit)
          => /\ IsResult(f.ret)
             /\ DownstreamToken(f.ret) = f.call.result.access_token
             /\ ~NoTokenIn(f.call.resp) => /\ DownstreamToken(f.ret) = f.call.resp.access_token
                                           /\ f.call.result.expires_in = f.call.resp.expires_in
    /\ (f.call.via = "mcp" /\ f.call.hit)
          => \E j \in DOMAIN Frames :
                /\ Stored(Frames[j])
                /\ LookupKey(Frames[j].call) = LookupKey(f.call)
                /\ DownstreamToken(f.ret) = Frames[j].call.result.access_token

\* The entry is the token one call stored together with the expiry of that token.
EntryOf(entry, f) ==
    \E t \in f.call.begun..now :
        entry = [access_token |-> f.call.result.access_token,
                 expires_at |-> t + f.call.result.expires_in - 60]

\* C15: under every interleaving of concurrent exchanges, a step of one call
\* leaves the frames of the other calls and the gateways as they were, every
\* finished call has the result its own requests earned, and each cache key
\* holds one complete entry, the token and expiry stored by one of the calls
\* (at every moment, and so once all calls have completed).
C15_ConcurrentCallsIndependent ==
    /\ [](\A i \in DOMAIN Frames : Done(Frames[i]) => OwnResult(Frames[i]))
    /\ [](\A k \in DOMAIN token_cache :
             \E i \in DOMAIN Frames :
                 /\ Stored(Frames[i]) /\ LookupKey(Frames[i].call) = k
                 /\ EntryOf(token_cache[k], Frames[i]))
    /\ [][/\ \A i \in DOMAIN suspended :
                \/ Frame' = suspended[i]
                \/ \E j \in DOMAIN suspended' : suspended'[j] = suspended[i]
          /\ xaa_manager' = xaa_manager /\ okta_service' = okta_service]_vars

\* Three calls were in flight together and all are done: two of them, for
\* different subject tokens with one cache key, each stored a token that would
\* have served the other had it come later; the third went through the manager.
C15_Witness ==
    /\ Len(Frames) = 3
    /\ \A i \in DOMAIN Frames : Done(Frames[i])
    /\ \E i, j, k \in DOMAIN Frames :
          /\ Stored(Frames[i]) /\ Stored(Frames[j])
          /\ Frames[i].call.subject_token # Frames[j].call.subject_token
          /\ LookupKey(Frames[i].call) = LookupKey(Frames[j].call)
          /\ Frames[i].call.result.expires_in > 60
          /\ Frames[j].call.result.expires_in > 60
          /\ Frames[i].call.result.access_token # Frames[j].call.result.access_token
          /\ Frames[k].call.gateway = "xaa" /\ IsResult(Frames[k].ret)

\* The call was cancelled at one of its awaits.
CancelledAt(c) == c.resp1 = Cancelled \/ c.resp2 = Cancelled \/ c.resp = Cancelled

\* C16: when the caller cancels an exchange at either HTTP call, the exchange
\* ends there: nothing more is sent (a step 2 not yet started never starts), no
\* result is returned, and the token cache, which no step of a call still in
\* flight writes, is as it was before the exchange began.
C16_CancelLeavesCacheAlone ==
    /\ [](CancelledAt(call)
            => /\ pc = "idle" /\ ~IsResult(ret)
               /\ call.resp1 = Cancelled => Len(wire) = 1)
    /\ [][/\ pc' # "idle" => token_cache' = token_cache
          /\ (pc # "idle" /\ CancelledAt(call'))
                => token_cache' = token_cache /\ wire' = wire]_vars

\* An exchange behind the cache was cancelled while an earlier entry was there.
C16_Witness ==
    /\ call.via = "mcp" /\ call.resp = Cancelled /\ pc = "idle"
    /\ LookupKey(call) \in DOMAIN token_cache

\* C17: a downstream token that an exchange returned is never the subject token
\* of a token-exchange request sent afterwards.
C17_DownstreamTokenNotExchangedAgain ==
    [][(Finished("xaa") /\ IsResult(ret))
          => \A i \in DOMAIN wire' :
                wire'[i].grant_type = "urn:ietf:params:oauth:grant-type:token-exchange"
                   => wire'[i].token # DownstreamToken(ret)]_vars

\* The exchange in `call` got an access token from the authorization server.
RealResult == Finished("okta") /\ ~call.hit /\ ~NoTokenIn(call.resp)
IssuedClaims == JwtDecode(call.resp.access_token)

\* C18: the chain extracted from an access token with claims
\* {sub: u, act: {sub: a1, act: {sub: a2, ...}}} is [u, a1, a2, ...], the
\* token's own sub first and then the actors from the outermost inwards; from
\* claims without act it is [u].
C18_ChainIsSubjectThenActors ==
    (RealResult /\ IssuedClaims.ok /\ IssuedClaims.sub # None)
        => LET u == IssuedClaims.sub
               act == IssuedClaims.act
               chain == call.result.delegation_chain
           IN  /\ act = NoAct => chain = <<u>>
               /\ (DOMAIN act = {"sub"}) => chain = <<u, act.sub>>
               /\ (DOMAIN act = {"sub", "act"} /\ DOMAIN act.act = {"sub"})
                     => chain = <<u, act.sub, act.act.sub>>
               /\ (DOMAIN act = {"sub", "act"} /\ DOMAIN act.act = {"sub", "act"}
                   /\ DOMAIN act.act.act = {"sub"})
                     => chain = <<u, act.sub, act.act.sub, act.act.act.sub>>

\* The route returned the chain of a token with three nested actors.
C18_Witness ==
    /\ RealResult /\ call.via = "route" /\ call.resp.access_token = "tok-5"
    /\ ret.delegation_chain = <<"alice", "wlpAgent1", "svc-orders", "svc-edge">>

\* C19: in every result returned, real or simulated, for a subject token the
\* user's subject can be read from, the delegation chain starts with that
\* subject and ends with the agent's own identifier.
C19_ChainFromUserToAgent ==
    (/\ Finished("okta") /\ call.result.kind = "TokenExchangeResponse"
     /\ JwtDecode(call.subject_token).ok /\ JwtDecode(call.subject_token).sub # None)
        => LET chain == call.result.delegation_chain
           IN  /\ Len(chain) >= 1
               /\ chain[1] = JwtDecode(call.subject_token).sub
               /\ chain[Len(chain)] = okta_service.agent_id

\* C20: an exchange attempt that has ended, successful or failed, has
\* produced one audit event for each step that ran, with the step's name,
\* target audience, duration and outcome, and after them one summary event
\* with the final delegation chain.
C20_AuditEventPerStepAndSummary ==
    (pc = "idle" /\ call.gateway # "none" /\ ~call.hit)
        => /\ Len(call.audit) = Len(wire) + 1
           /\ \A i \in DOMAIN wire :
                 /\ {"step", "targetAudience", "durationMs", "outcome"} \subseteq DOMAIN call.audit[i]
                 /\ call.audit[i].step = wire[i].step
           /\ "delegation_chain" \in DOMAIN call.audit[Len(call.audit)]

\* The agent id of the gateway that sent a request.
AgentIdOf(req) == IF req.by = "xaa" THEN xaa_manager.agent_id ELSE okta_service.agent_id

\* C21: every client assertion on the wire has iss = sub = the agent id, the
\* aud it was made out to, exp = iat + 300, a jti, and in its header the kid of
\* the JWK that was loaded.
C21_AssertionClaims ==
    \A i \in DOMAIN wire :
        LET a == wire[i].client_assertion
        IN  /\ a.iss = AgentIdOf(wire[i]) /\ a.sub = AgentIdOf(wire[i])
            /\ a.aud = wire[i].url
            /\ a.exp = a.iat + 300
            /\ a.jti # None
            /\ a.kid = env.OKTA_AGENT_PRIVATE_KEY.kid

\* The POSTs of the exchange to one endpoint.
PostsTo(url) == {i \in DOMAIN wire : wire[i].url = url}

\* C22: one exchange sends at most one POST to the step-1 endpoint and at most
\* one to the step-2 endpoint, whatever the answers: nothing is retried.
C22_NoRetry ==
    call.gateway = "xaa"
        => /\ Cardinality(PostsTo(Step1Url(xaa_manager))) <= 1
           /\ \A a \in {xaa_manager.default_auth_server_id, xaa_manager.google_auth_server_id} :
                 Cardinality(PostsTo(Step2Url(xaa_manager, a))) <= 1
           /\ Len(wire) <= 2
           /\ (Answered(call.resp1) /\ NoTokenIn(call.resp1)) => Len(wire) = 1

\* The step-1 POST timed out and the exchange ended with that one POST.
C22_Witness ==
    pc = "idle" /\ call.gateway = "xaa" /\ call.resp1 = Raised /\ Len(wire) = 1

\* C23: a call that was served from the cache got a downstream token that
\* some call obtained by exchanging the very subject token it presented.
C23_CacheServesOwnSubjectOnly ==
    \A i \in DOMAIN Frames :
        (Done(Frames[i]) /\ Frames[i].call.via = "mcp" /\ Frames[i].call.hit)
            => \E j \in DOMAIN Frames :
                  /\ Stored(Frames[j])
                  /\ Frames[j].call.subject_token = Frames[i].call.subject_token
                  /\ Frames[j].call.result.access_token = DownstreamToken(Frames[i].ret)

\* C24: the MCP client's cache holds, and its calls return for use as Bearer
\* credential, only tokens the authorization server issued: after a rejected
\* or failed exchange no simulated token is in the cache (so that the next
\* call for the subject token misses and exchanges again).
C24_OnlyIssuedTokensCached ==
    /\ \A k \in DOMAIN token_cache : token_cache[k].access_token \notin SimulatedTokens
    /\ (call.via = "mcp" /\ pc = "idle") => DownstreamToken(ret) \notin SimulatedTokens

\* C25: a lookup that found an expired entry removed it: while the exchange
\* that follows the miss is in flight, and after it was cancelled, the key is
\* not in the cache.
C25_ExpiredEntryEvicted ==
    (call.via = "mcp" /\ ~call.hit /\ (pc = "okta" \/ call.resp = Cancelled))
        => LookupKey(call) \notin DOMAIN token_cache

\* The token a handled request presented, and what the spec calls a bad token:
\* one that does not decode, or one whose exp lies before the time the server
\* read.
Handled == mcp_server.response # NoToolResponse
PresentedToken == extract_token_from_headers(mcp_server.request.headers)
WellFormed(token) ==
    LET j == SplitAndDecode(token) IN j.parts = 3 /\ j.header /\ j.payload
ExpiredAt(token, t) ==
    WellFormed(token) /\ SplitAndDecode(token).exp # Absent /\ t > SplitAndDecode(token).exp
ToolRan == mcp_server.response.result # NoResult

\* C26: on every tool-invocation path of the MCP server, a request that
\* presents an expired or malformed token is answered with 401 and no tool
\* runs for it.
C26_NoToolForBadToken ==
    (/\ Handled
     /\ ~Falsy(PresentedToken)
     /\ ~WellFormed(PresentedToken) \/ ExpiredAt(PresentedToken, mcp_server.time))
    => mcp_server.response.status_code = 401 /\ ~ToolRan

\* C27: validate_token reports a well-formed token invalid when it is expired,
\* when its iss is not the configured Okta issuer, or when its audience is not
\* the audience of the MCP server; POST /tools/call answers such a token with 401.
C27_ExpiryIssuerAudienceVerified ==
    (/\ Handled
     /\ mcp_server.request.path = "/tools/call"
     /\ ~Falsy(PresentedToken)
     /\ WellFormed(PresentedToken)
     /\ \/ ExpiredAt(PresentedToken, mcp_server.time)
        \/ SplitAndDecode(PresentedToken).iss # OKTA_ISSUER
        \/ SplitAndDecode(PresentedToken).aud # McpAudience)
    => /\ ~validate_token(PresentedToken, mcp_server.time).valid
       /\ mcp_server.response.status_code = 401

\* C28: get_entries called with a user_id returns only entries of that user
\* (none when the user has no entries), whatever was logged before.
C28_OnlyOwnEntries ==
    (ret.kind = "entries" /\ ret.user_id # None)
    => \A i \in DOMAIN ret.entries : ret.entries[i].user_id = ret.user_id

\* C29: a tool call is recorded as successful (MCPToolCallResponse.success,
\* status COMPLETED) only if the MCP server reported success for it.
C29_CompletedOnlyOnServerSuccess ==
    (tool_call.stage = "done"
     /\ (tool_call.status = "completed" \/ tool_call.mcp_response.success))
    => tool_call.mcp_response.result.success

\* The parts of C30: a tool use over 10,000 is held back, one up to 10,000
\* goes on to POST /tools/call, and the step that handles a tool use over
\* 10,000 sends nothing.
OverThreshold(amount) == AmountOf(amount) > 10000
C30_HeldBack ==
    (tool_call.stage # "none" /\ OverThreshold(tool_call.amount))
    => /\ tool_call.status = "requires_approval"
       /\ tool_call.tool_result = "pending_approval"
       /\ tool_call.stage = "done"
       /\ tool_call.mcp_response = NoMcpResponse
C30_Forwarded ==
    (tool_call.stage # "none" /\ ~OverThreshold(tool_call.amount))
    => /\ tool_call.status # "requires_approval"
       /\ tool_call.stage = "post"
          => /\ mcp_server.request.path = "/tools/call"
             /\ mcp_server.request.amount = AmountOf(tool_call.amount)
             /\ mcp_server.request.recipient = tool_call.recipient
C30_NothingSent ==
    (tool_call' # tool_call /\ OverThreshold(tool_call'.amount))
    => mcp_server' = mcp_server /\ wire' = wire /\ token_cache' = token_cache
\* C30: an initiate_payment tool use whose amount exceeds 10,000 is marked
\* REQUIRES_APPROVAL and answered with pending_approval, and nothing is sent to
\* the MCP server for it (no request with such an amount ever reaches the
\* server); a tool use with amount <= 10,000 is not held back: it goes to the
\* token exchange and then to POST /tools/call.
C30_ApprovalGate ==
    /\ [](C30_HeldBack /\ C30_Forwarded /\ ~OverThreshold(mcp_server.request.amount))
    /\ [][C30_NothingSent]_vars
C30_Witness ==
    /\ tool_call.status = "requires_approval"
    /\ OverThreshold(tool_call.amount)
    /\ mcp_server.response.status_code = HttpOk
    /\ mcp_server.request.amount = 10000

=============================================================================
